---- MODULE Spec2Model ----
(***************************************************************************)
(* The training / evaluation / checkpoint control loop of src/main.py      *)
(* (MXMNet on QM9), as a state machine.                                    *)
(*                                                                         *)
(* One process runs the script top to bottom; `pc` is its position.  The   *)
(* file system (the periodic checkpoint files and the best-epoch file)     *)
(* outlives a process, so a later process can be started with              *)
(* --checkpoint_path naming one of the files an earlier one wrote.         *)
(*                                                                         *)
(* The network, the optimizer's arithmetic and the data are opaque: the    *)
(* parameters are one number, an optimizer step moves it to any value of   *)
(* Weights, an evaluated example has any error of ExampleErrs.  Losses     *)
(* and parameters are fixed-point numbers (thousandths).                   *)
(*                                                                         *)
(* utils.py (EMA, save_ckp, load_ckp) is not among the sources; these      *)
(* three are modelled from their contract in the specification, sections   *)
(* 4.1 and 4.3.  A later process is always a resumption, and a process is  *)
(* stopped from outside only right after a periodic save.                  *)
(*                                                                         *)
(* Specifications:                                                         *)
(*   Spec              the script with the default --scheduler, and its    *)
(*                     resumptions;                                        *)
(*   SpecFair          Spec, where a process that is not stopped takes its *)
(*                     next step (termination);                            *)
(*   SpecAnyScheduler  Spec with any --scheduler;                          *)
(*   SpecTest          test(loader) on its own, over every small data set  *)
(*                     and batch size;                                     *)
(*   SpecLoop          the epoch and batch loops on their own, over every  *)
(*                     small training-set size and batch size, with the    *)
(*                     value they give to scheduler.step.                  *)
(***************************************************************************)
EXTENDS Integers, Sequences, FiniteSets

\* ------------------------------------------------------------------ bounds
\* The largest --epochs a run is started with.
MaxEpochs == 10
\* The number of processes (the first run and the resumptions after it).
MaxRuns == 2
\* The largest data set and the largest batch size a function of the script is
\* run on, on its own.
MaxExamples == 4
MaxBatch == 3
\* The number of epochs the training loop is run for, on its own.
MaxLoopEpochs == 3
\* ------------------------------------------------------- program constants
\* Python's None, and a name that is not bound yet.
None == -1
\* (epoch + 1) % 5 == 0
SaveEvery == 5
\* EMA(model, decay=0.999), in thousandths.
DecayNum == 999
DecayDen == 1000
\* GradualWarmupScheduler(..., total_epoch=1, ...): the warmup length, in epochs.
WarmupEpochs == 1

\* Lines 132-134: len(train_dataset), len(val_dataset), len(test_dataset), scaled
\* down from 110000, 10000 and the rest of QM9.
TrainSize == 3
ValSize == 1
TestSize == 2

\* ------------------------------------------------------------------ inputs
\* --epochs of a run.
EpochChoices == {0, SaveEvery, MaxEpochs}
\* --batch_size of a run.
BatchSizes == {1, 2}
\* --scheduler of a run (line 34: the default is ExponentialLR; lines 163-180:
\* any other value than the first two selects ExponentialLR too).
SchedulerChoices == {"MultiStepLR", "OneCycleLR", "ExponentialLR"}
DefaultScheduler == "ExponentialLR"
\* The values the parameters can take.
Weights == {0, 1}
\* |output - y| of one example (thousandths).
ExampleErrs == {500, 1500}

VARIABLES
    \* the process
    pc,             \* position in the script
    run,            \* which process this is (1 = the first)
    epochs,         \* args.epochs
    batch_size,     \* args.batch_size
    scheduler,      \* args.scheduler
    ckpt_arg,       \* args.checkpoint_path: {} or {the record of the file}
    \* the script's variables
    start_epoch, valid_loss_min, epoch, step,
    best_epoch, best_val_loss, val_loss, test_loss, is_best, checkpoint,
    \* the model, the optimizer, the scheduler, the EMA object
    w,              \* the model's parameters
    training,       \* model.training
    opt,            \* optimizer state: the number of steps taken
    sched,          \* scheduler state: [last: numerator of last_epoch over TrainSize, n: calls of step,
                    \*                   warmup: it is a GradualWarmupScheduler around the policy]
    shadow,         \* ema.shadow
    original,       \* ema.original (None: nothing saved)
    \* inside test(loader)
    loader, error, eb,
    \* inside the batch body
    ip,
    \* the file system
    periodic,       \* the records of the periodic files
    best_file,      \* {} or {the record of the best-epoch file}
    \* history
    log,            \* the operations performed since the current batch was fetched
    trained,        \* the parameters as the optimizer (or load_ckp, or the constructor) last set them
    unmatched,      \* assigns not yet followed by their resume
    seen,           \* seen[k], k a save point: the least validation loss observed, in any run, at an epoch index < k
    before,         \* inside test(): what the optimizer, the scheduler, the shadow, the tracker and the parameters were at the call
    progress,       \* the epochs this process has completed, and the phases of the current epoch it has entered
    observed,       \* what this process has measured: the least validation loss, the latest epoch that had it, the epoch of the last test evaluation
    \* a function of the script run on its own
    pure            \* Idle, or the function's arguments, position and result

vars == <<pc, run, epochs, batch_size, scheduler, ckpt_arg, start_epoch, valid_loss_min, epoch, step,
          best_epoch, best_val_loss, val_loss, test_loss, is_best, checkpoint,
          w, training, opt, sched, shadow, original, loader, error, eb, ip,
          periodic, best_file, log, trained, unmatched, seen, before, progress, observed, pure>>

\* --------------------------------------------------------------- helpers
Min(a, b) == IF a <= b THEN a ELSE b

\* The number of batches a DataLoader yields over a dataset of n examples.
NumBatches(n, b) == (n + b - 1) \div b

\* The number of examples of batch i (0-based) of such a loader.
BatchLen(n, b, i) == Min(b, n - i * b)

LoaderSize(l) == IF l = "val" THEN ValSize ELSE TestSize

RECURSIVE ErrSums(_)
\* The sums of the absolute errors of k examples.
ErrSums(k) == IF k = 0 THEN {0}
              ELSE {s + e : s \in ErrSums(k - 1), e \in ExampleErrs}

\* A checkpoint variable that holds no record yet.
NoRecord == [epoch |-> 0, valid_loss_min |-> None, state_dict |-> None,
             optimizer |-> None, scheduler |-> [last |-> None, n |-> None, warmup |-> FALSE]]

\* What the constructors at lines 154-180 leave: a fresh optimizer and scheduler.
FreshOpt == 0
FreshSched == [last |-> 0, n |-> 0, warmup |-> scheduler # "OneCycleLR"]


\* ------------------------------------------------------------ the script
\* The batch body with the shadow updated before the optimizer has stepped.
BatchBodyEmaFirst == <<"zero_grad", "forward", "loss", "backward", "clip",
                       "ema_update", "opt_step", "sched_step">>

\* The batch body with the shadow updated before the scheduler is stepped.
BatchBodyEmaBeforeSched == <<"zero_grad", "forward", "loss", "backward", "clip",
                             "opt_step", "ema_update", "sched_step">>

\* Lines 209-220: the statements of the batch body, in program order.
BatchBody == <<"zero_grad", "forward", "loss", "backward", "clip",
               "opt_step", "sched_step", "ema_update">>

\* The statement the process is at, inside the batch body.
AtOp(op) == pc = "batch" /\ BatchBody[ip] = op

\* Move to the next statement of the batch body; after the last one, to step += 1.
Advance(op) ==
    /\ log' = Append(log, op)
    /\ IF ip < Len(BatchBody)
       THEN pc' = "batch" /\ ip' = ip + 1
       ELSE pc' = "step_inc" /\ ip' = ip

\* The virtual epoch counted after the batch instead of before it.
VirtualEpochAfterBatch(e, s, n, b) == e * n + (s + 1) * b

\* Line 218: epoch + float(step) / (len(train_dataset) / args.batch_size) for
\* epoch e, step s, n training examples and batch size b, as the numerator of a
\* fraction over n.
VirtualEpoch(e, s, n, b) == e * n + s * b

\* The virtual epoch without its integer part.
CurrEpochStepOnly == step * batch_size

\* Line 218: curr_epoch, as the numerator of a fraction over TrainSize.
CurrEpoch == VirtualEpoch(epoch, step, TrainSize, batch_size)

\* The record built from the averaged parameters instead of the model's.
StateDictShadow == shadow

\* Line 231: the parameters that go into the checkpoint record.
StateDict == w

\* The record's epoch field naming the epoch just completed, not the next one.
RecordEpochCompleted == epoch

\* Line 229: the record's epoch field.
RecordEpoch == epoch + 1

\* Lines 228-234: the checkpoint record.
CheckpointRecord ==
    [epoch |-> RecordEpoch, valid_loss_min |-> val_loss, state_dict |-> StateDict,
     optimizer |-> opt, scheduler |-> sched]

\* The best check with a strict comparison: a tie keeps the earlier epoch.
IsNewBestStrict == best_val_loss = None \/ val_loss < best_val_loss

\* Line 236: best_val_loss is None or val_loss <= best_val_loss
IsNewBest == best_val_loss = None \/ val_loss <= best_val_loss

\* The periodic save made only in an epoch that is also a best one.
SaveDueBestOnly == (epoch + 1) % SaveEvery = 0 /\ is_best

\* The loop running one epoch more than --epochs.
MoreEpochsInclusive == epoch <= epochs

\* Line 201: range(start_epoch, args.epochs) has a next element.
MoreEpochs == epoch < epochs

\* Line 243: (epoch + 1) % 5 == 0
SaveDue == (epoch + 1) % SaveEvery = 0

\* utils.EMA.__call__: shadow <- d * shadow + (1 - d) * live, rounded down.
EmaValue(s, v) == (DecayNum * s + (DecayDen - DecayNum) * v) \div DecayDen

\* Line 117: error / len(loader.dataset) for a data set of n examples, rounded
\* down to a thousandth.
MeanOf(e, n) == e \div n

\* Line 117: error / len(loader.dataset)
MeanError(e, l) == MeanOf(e, LoaderSize(l))

\* The 1-indexed epoch numbers after which save_ckp is called (line 243).
SavePoints == {k \in 1..MaxEpochs : k % SaveEvery = 0}

\* The validation loss v of epoch index j enters the history.
Observe(j, v) ==
    [k \in SavePoints |->
        IF k <= j THEN seen[k]
        ELSE IF seen[k] = None THEN v ELSE Min(seen[k], v)]

\* No epoch completed, none entered.
NoProgress == [executed |-> 0, phases |-> <<>>]

\* The current epoch enters a phase.
Enter(phase) == [progress EXCEPT !.phases = Append(@, phase)]

\* Outside test(): no snapshot.
NoSnapshot == [opt |-> None, sched |-> None, shadow |-> None, best |-> None, w |-> None]

\* The state a call of test() finds.
Snapshot == [opt |-> opt, sched |-> sched, shadow |-> shadow,
             best |-> <<best_epoch, best_val_loss>>, w |-> w]

\* Nothing measured yet by this process.
NothingObserved == [min |-> None, at |-> None, tested |-> None]

\* The validation loss v of epoch index j enters this process's measurements.
ObserveVal(j, v) ==
    IF observed.min = None \/ v <= observed.min
    THEN [observed EXCEPT !.min = v, !.at = j]
    ELSE observed

\* ----------------------------------------------------------------- frames
scriptVars == <<start_epoch, valid_loss_min, epoch, step, best_epoch, best_val_loss,
                val_loss, test_loss, is_best, checkpoint>>
argVars == <<run, epochs, batch_size, scheduler, ckpt_arg>>
fileVars == <<periodic, best_file>>
evalVars == <<loader, error, eb>>
emaVars == <<shadow, original>>

\* ------------------------------------------------------------------- Init
\* Lines 69-180 with --scheduler kind: the arguments are parsed, the model, the
\* optimizer and the scheduler are constructed.
Constructed(kind) ==
    /\ scheduler = kind
    /\ pc = "start"
    /\ run = 1
    /\ epochs \in EpochChoices
    /\ batch_size \in BatchSizes
    /\ ckpt_arg = {}
    /\ start_epoch = 0
    /\ valid_loss_min = None
    /\ epoch = 0
    /\ step = 0
    /\ best_epoch = None
    /\ best_val_loss = None
    /\ val_loss = None
    /\ test_loss = None
    /\ is_best = FALSE
    /\ checkpoint = NoRecord
    /\ w \in Weights
    /\ training = TRUE
    /\ opt = FreshOpt
    /\ sched = FreshSched
    /\ shadow = None
    /\ original = None
    /\ loader = "none"
    /\ error = 0
    /\ eb = 0
    /\ ip = 1
    /\ periodic = {}
    /\ best_file = {}
    /\ log = <<>>
    /\ trained = w
    /\ unmatched = 0
    /\ seen = [k \in SavePoints |-> None]
    /\ before = NoSnapshot
    /\ progress = NoProgress
    /\ observed = NothingObserved

\* No function is run on its own.
Idle == [fn |-> "none"]

\* A first run with the default scheduler.
Init == Constructed(DefaultScheduler) /\ pure = Idle

\* A first run with any --scheduler.
InitAnyScheduler == pure = Idle /\ \E k \in SchedulerChoices : Constructed(k)


\* --------------------------------------------------- start of the process
\* utils.load_ckp(path, model, optimizer, scheduler): what it returns for record r.
LoadCkp(r) == [state_dict |-> r.state_dict, optimizer |-> r.optimizer,
               epoch |-> r.epoch, valid_loss_min |-> r.valid_loss_min,
               scheduler |-> r.scheduler]

\* Lines 182-189: start_epoch = 0; with --checkpoint_path, load the record.
Resolve ==
    /\ pc = "start"
    /\ IF ckpt_arg = {}
       THEN /\ start_epoch' = 0
            /\ UNCHANGED <<valid_loss_min, w, opt, sched, trained>>
       ELSE LET l == LoadCkp(CHOOSE r \in ckpt_arg : TRUE) IN
            /\ w' = l.state_dict
            /\ trained' = l.state_dict
            /\ opt' = l.optimizer
            /\ start_epoch' = l.epoch
            /\ valid_loss_min' = l.valid_loss_min
            /\ sched' = l.scheduler
    /\ pc' = "ema_init"
    /\ UNCHANGED <<argVars, epoch, step, best_epoch, best_val_loss, val_loss, test_loss,
                   is_best, checkpoint, training, emaVars, evalVars, ip, fileVars,
                   log, unmatched, seen, before, progress, observed, pure>>

\* Line 192: ema = EMA(model, decay=0.999) snapshots the model's parameters;
\* lines 198-199: best_epoch = None, best_val_loss = None; line 201: the loop
\* variable starts at start_epoch.
EmaInit ==
    /\ pc = "ema_init"
    /\ shadow' = w
    /\ original' = None
    /\ best_epoch' = None
    /\ best_val_loss' = None
    /\ epoch' = start_epoch
    /\ pc' = "loop"
    /\ UNCHANGED <<argVars, start_epoch, valid_loss_min, step, val_loss, test_loss, is_best,
                   checkpoint, w, training, opt, sched, evalVars, ip, fileVars,
                   log, trained, unmatched, seen, before, progress, observed, pure>>

\* ------------------------------------------------------------- the epoch
\* Lines 201-204: for epoch in range(start_epoch, args.epochs): step = 0; model.train()
LoopHead ==
    /\ pc = "loop"
    /\ IF MoreEpochs
       THEN /\ step' = 0 /\ training' = TRUE /\ pc' = "fetch"
            /\ progress' = [progress EXCEPT !.phases = <<"TrainEpoch">>]
       ELSE pc' = "report" /\ UNCHANGED <<step, training, progress>>
    /\ UNCHANGED <<argVars, start_epoch, valid_loss_min, epoch, best_epoch, best_val_loss,
                   val_loss, test_loss, is_best, checkpoint, w, opt, sched, emaVars,
                   evalVars, ip, fileVars, log, trained, unmatched, seen, before, observed, pure>>

\* Line 206: for data in train_loader
Fetch ==
    /\ pc = "fetch"
    /\ IF step < NumBatches(TrainSize, batch_size)
       THEN pc' = "batch" /\ ip' = 1 /\ log' = <<>>
       ELSE pc' = "epoch_end" /\ UNCHANGED <<ip, log>>
    /\ UNCHANGED <<argVars, scriptVars, w, training, opt, sched, emaVars, evalVars,
                   fileVars, trained, unmatched, seen, before, progress, observed, pure>>

\* Lines 209-215: the statements that only touch the gradients.
Gradient(op) ==
    /\ AtOp(op)
    /\ Advance(op)
    /\ UNCHANGED <<argVars, scriptVars, w, training, opt, sched, emaVars, evalVars,
                   fileVars, trained, unmatched, seen, before, progress, observed, pure>>

ZeroGrad == Gradient("zero_grad")
Forward == Gradient("forward")
Loss == Gradient("loss")
Backward == Gradient("backward")
Clip == Gradient("clip")

\* Line 216: optimizer.step()
OptStep ==
    /\ AtOp("opt_step")
    /\ Advance("opt_step")
    /\ \E v \in Weights : w' = v /\ trained' = v
    /\ opt' = opt + 1
    /\ UNCHANGED <<argVars, scriptVars, training, sched, emaVars, evalVars,
                   fileVars, unmatched, seen, before, progress, observed, pure>>

\* Lines 218-219: scheduler.step(curr_epoch)
SchedStep ==
    /\ AtOp("sched_step")
    /\ Advance("sched_step")
    /\ sched' = [sched EXCEPT !.last = CurrEpoch, !.n = @ + 1]
    /\ UNCHANGED <<argVars, scriptVars, w, training, opt, emaVars, evalVars,
                   fileVars, trained, unmatched, seen, before, progress, observed, pure>>

\* Line 220: ema(model)
EmaUpdate ==
    /\ AtOp("ema_update")
    /\ Advance("ema_update")
    /\ shadow' = EmaValue(shadow, w)
    /\ UNCHANGED <<argVars, scriptVars, w, training, opt, sched, original, evalVars,
                   fileVars, trained, unmatched, seen, before, progress, observed, pure>>

\* Line 221: step += 1
StepInc ==
    /\ pc = "step_inc"
    /\ step' = step + 1
    /\ pc' = "fetch"
    /\ UNCHANGED <<argVars, start_epoch, valid_loss_min, epoch, best_epoch, best_val_loss,
                   val_loss, test_loss, is_best, checkpoint, w, training, opt, sched,
                   emaVars, evalVars, ip, fileVars, log, trained, unmatched, seen, before, progress, observed, pure>>

\* ------------------------------------------------------------ test(loader)
\* A call of test(l).
Call(l) == loader' = l /\ pc' = "assign" /\ before' = Snapshot

\* test() returns: its locals (loader, error, the loop's position) are gone.
Leave == loader' = "none" /\ error' = 0 /\ eb' = 0 /\ before' = NoSnapshot

\* Lines 109-110: error = 0; ema.assign(model) saves the live parameters and
\* puts the shadow into the model.
Assign ==
    /\ pc = "assign"
    /\ error' = 0
    /\ eb' = 0
    /\ original' = w
    /\ w' = shadow
    /\ unmatched' = unmatched + 1
    /\ log' = Append(log, "assign")
    /\ pc' = "eval"
    /\ UNCHANGED <<argVars, scriptVars, training, opt, sched, shadow, loader, ip,
                   fileVars, trained, seen, before, progress, observed, pure>>

\* Lines 112-115: one batch of the loader.
EvalBatch ==
    /\ pc = "eval"
    /\ eb < NumBatches(LoaderSize(loader), batch_size)
    /\ \E e \in ErrSums(BatchLen(LoaderSize(loader), batch_size, eb)) : error' = error + e
    /\ eb' = eb + 1
    /\ log' = Append(log, "eval_batch")
    /\ UNCHANGED <<pc, argVars, scriptVars, w, training, opt, sched, emaVars, loader, ip,
                   fileVars, trained, unmatched, seen, before, progress, observed, pure>>

\* test() without the call of ema.resume: the shadow stays in the model.
ResumeMissing ==
    /\ pc = "eval"
    /\ eb = NumBatches(LoaderSize(loader), batch_size)
    /\ log' = Append(log, "resume")
    /\ pc' = "eval_ret"
    /\ UNCHANGED <<argVars, scriptVars, w, training, opt, sched, emaVars, evalVars, ip,
                   fileVars, trained, unmatched, seen, before, progress, observed, pure>>

\* Line 116: ema.resume(model) puts the saved parameters back.
Resume ==
    /\ pc = "eval"
    /\ eb = NumBatches(LoaderSize(loader), batch_size)
    /\ w' = original
    /\ unmatched' = unmatched - 1
    /\ log' = Append(log, "resume")
    /\ pc' = "eval_ret"
    /\ UNCHANGED <<argVars, scriptVars, training, opt, sched, emaVars, evalVars, ip,
                   fileVars, trained, seen, before, progress, observed, pure>>

\* Lines 223-224: val_loss = test(val_loader), the call.
CallValidate ==
    /\ pc = "epoch_end"
    /\ Call("val")
    /\ progress' = Enter("Validate")
    /\ UNCHANGED <<argVars, scriptVars, w, training, opt, sched, emaVars, error, eb, ip,
                   fileVars, log, trained, unmatched, seen, observed, pure>>

\* Lines 117, 224: val_loss = the value test(val_loader) returns.
ReturnVal ==
    /\ pc = "eval_ret"
    /\ loader = "val"
    /\ val_loss' = MeanError(error, loader)
    /\ seen' = Observe(epoch, MeanError(error, loader))
    /\ observed' = ObserveVal(epoch, MeanError(error, loader))
    /\ pc' = "build"
    /\ Leave
    /\ UNCHANGED <<argVars, start_epoch, valid_loss_min, epoch, step, best_epoch,
                   best_val_loss, test_loss, is_best, checkpoint, w, training, opt, sched,
                   emaVars, ip, fileVars, log, trained, unmatched, progress, pure>>

\* Lines 228-235: checkpoint = {...}; is_best = False
Build ==
    /\ pc = "build"
    /\ checkpoint' = CheckpointRecord
    /\ is_best' = FALSE
    /\ log' = Append(log, "checkpoint")
    /\ pc' = "best_check"
    /\ UNCHANGED <<argVars, start_epoch, valid_loss_min, epoch, step, best_epoch,
                   best_val_loss, val_loss, test_loss, w, training, opt, sched, emaVars,
                   evalVars, ip, fileVars, trained, unmatched, seen, before, progress, observed, pure>>

\* Lines 236-237: if best_val_loss is None or val_loss <= best_val_loss: the call
\* of test(test_loader).
BestCheck ==
    /\ pc = "best_check"
    /\ progress' = Enter("MaybeTest")
    /\ IF IsNewBest THEN Call("test") ELSE pc' = "cadence" /\ UNCHANGED <<loader, before>>
    /\ UNCHANGED <<argVars, scriptVars, w, training, opt, sched, emaVars, error, eb, ip,
                   fileVars, log, trained, unmatched, seen, observed, pure>>

\* Lines 117, 237, 240-242: test_loss = the value test(test_loader) returns;
\* best_epoch = epoch; best_val_loss = val_loss; is_best = True
ReturnTest ==
    /\ pc = "eval_ret"
    /\ loader = "test"
    /\ test_loss' = MeanError(error, loader)
    /\ best_epoch' = epoch
    /\ best_val_loss' = val_loss
    /\ is_best' = TRUE
    /\ observed' = [observed EXCEPT !.tested = epoch]
    /\ pc' = "cadence"
    /\ Leave
    /\ UNCHANGED <<argVars, start_epoch, valid_loss_min, epoch, step, val_loss, checkpoint,
                   w, training, opt, sched, emaVars, ip, fileVars, log, trained,
                   unmatched, seen, progress, pure>>

\* utils.save_ckp(state, is_best, checkpoint_path, best_model_path): the periodic
\* file is written; the best file too when is_best.
SaveCkp(state, best) ==
    /\ periodic' = periodic \cup {state}
    /\ best_file' = IF best THEN {state} ELSE best_file

\* Lines 243-246: if (epoch + 1) % 5 == 0: save_ckp(checkpoint, is_best, ...)
Cadence ==
    /\ pc = "cadence"
    /\ IF SaveDue
       THEN SaveCkp(checkpoint, is_best) /\ log' = Append(log, "save")
       ELSE UNCHANGED <<fileVars, log>>
    /\ progress' = Enter("MaybeCheckpoint")
    /\ pc' = "print"
    /\ UNCHANGED <<argVars, scriptVars, w, training, opt, sched, emaVars, evalVars, ip,
                   trained, unmatched, seen, before, observed, pure>>

\* Lines 247-257: the epoch's line of the console report; the loop's next epoch.
PrintEpoch ==
    /\ pc = "print"
    /\ epoch' = epoch + 1
    /\ progress' = [progress EXCEPT !.executed = @ + 1]
    /\ pc' = "loop"
    /\ UNCHANGED <<argVars, start_epoch, valid_loss_min, step, best_epoch, best_val_loss,
                   val_loss, test_loss, is_best, checkpoint, w, training, opt, sched,
                   emaVars, evalVars, ip, fileVars, log, trained, unmatched, seen, before, observed, pure>>

\* Lines 259-263: the final report reads best_epoch and test_loss; test_loss is
\* a name no statement has bound when no epoch ran (NameError).
Report ==
    /\ pc = "report"
    /\ pc' = IF test_loss = None THEN "crashed" ELSE "done"
    /\ UNCHANGED <<argVars, scriptVars, w, training, opt, sched, emaVars, evalVars, ip,
                   fileVars, log, trained, unmatched, seen, before, progress, observed, pure>>

\* ------------------------------------------------------- the next process
\* The process has ended, or is stopped from outside right after a periodic save.
Stopped == pc \in {"done", "crashed"} \/ (pc = "print" /\ SaveDue)

\* A later process is started with --checkpoint_path naming a file an earlier
\* one wrote; lines 154-180 construct the model, optimizer and scheduler anew.
Restart ==
    /\ Stopped
    /\ run < MaxRuns
    /\ run' = run + 1
    /\ \E r \in periodic \cup best_file : ckpt_arg' = {r}
    /\ epochs' \in EpochChoices
    /\ pc' = "start"
    /\ start_epoch' = 0
    /\ valid_loss_min' = None
    /\ epoch' = 0
    /\ step' = 0
    /\ best_epoch' = None
    /\ best_val_loss' = None
    /\ val_loss' = None
    /\ test_loss' = None
    /\ is_best' = FALSE
    /\ checkpoint' = NoRecord
    /\ w' \in Weights
    /\ trained' = w'
    /\ training' = TRUE
    /\ opt' = FreshOpt
    /\ sched' = FreshSched
    /\ shadow' = None
    /\ original' = None
    /\ loader' = "none"
    /\ error' = 0
    /\ eb' = 0
    /\ ip' = 1
    /\ log' = <<>>
    /\ unmatched' = 0
    /\ before' = NoSnapshot
    /\ progress' = NoProgress
    /\ observed' = NothingObserved
    /\ UNCHANGED <<batch_size, scheduler, fileVars, seen, pure>>

\* A step of the running process.
Run ==
    \/ Resolve \/ EmaInit \/ LoopHead \/ Fetch
    \/ ZeroGrad \/ Forward \/ Loss \/ Backward \/ Clip
    \/ OptStep \/ SchedStep \/ EmaUpdate \/ StepInc
    \/ CallValidate \/ Assign \/ EvalBatch \/ Resume \/ ReturnVal
    \/ Build \/ BestCheck \/ ReturnTest \/ Cadence \/ PrintEpoch \/ Report

Next == Run \/ Restart

Spec == Init /\ [][Next]_vars

\* A process that is not stopped from outside takes its next step.
SpecFair == Spec /\ WF_vars(Run)

\* The runs with any --scheduler.
SpecAnyScheduler == InitAnyScheduler /\ [][Next]_vars


\* ------------------------------------------------- test(loader) on its own
\* The script is not running.
Parked == Constructed(DefaultScheduler) /\ epochs = 0 /\ batch_size = 1 /\ w = 0

scriptState == <<pc, argVars, scriptVars, w, training, opt, sched, emaVars, evalVars, ip,
                 fileVars, log, trained, unmatched, seen, before, progress, observed>>

\* The data sets: the absolute errors of the examples, in the loader's order.
DataSets == UNION {[1..n -> ExampleErrs] : n \in 1..MaxExamples}

RECURSIVE SumFrom(_, _, _)
\* errs[i] + ... + errs[j]
SumFrom(errs, i, j) == IF i > j THEN 0 ELSE errs[i] + SumFrom(errs, i + 1, j)

\* The batch's contribution taken as the mean of its errors.
BatchErrorMean(errs, b, i) ==
    SumFrom(errs, i * b + 1, i * b + BatchLen(Len(errs), b, i)) \div BatchLen(Len(errs), b, i)

\* Line 115: (output - data.y).abs().sum().item() of batch i (0-based) of a
\* loader of batch size b over the data set.
BatchError(errs, b, i) == SumFrom(errs, i * b + 1, i * b + BatchLen(Len(errs), b, i))

\* Line 109: test(loader) is called on a data set with a batch size; error = 0.
InitTest ==
    /\ Parked
    /\ \E d \in DataSets, b \in 1..MaxBatch :
          pure = [fn |-> "test", at |-> "assign", errs |-> d, b |-> b, i |-> 0,
                  error |-> 0, ret |-> None]

\* Line 110: ema.assign(model); the errors of the examples are those of the
\* model it leaves.
TestAssign ==
    /\ pure.fn = "test"
    /\ pure.at = "assign"
    /\ pure' = [pure EXCEPT !.at = "eval"]
    /\ UNCHANGED scriptState

\* Lines 112-115: one batch.
TestBatch ==
    /\ pure.fn = "test"
    /\ pure.at = "eval"
    /\ pure.i < NumBatches(Len(pure.errs), pure.b)
    /\ pure' = [pure EXCEPT !.error = @ + BatchError(pure.errs, pure.b, pure.i), !.i = @ + 1]
    /\ UNCHANGED scriptState

\* Line 116: ema.resume(model)
TestResume ==
    /\ pure.fn = "test"
    /\ pure.at = "eval"
    /\ pure.i = NumBatches(Len(pure.errs), pure.b)
    /\ pure' = [pure EXCEPT !.at = "eval_ret"]
    /\ UNCHANGED scriptState

\* Line 117: return error / len(loader.dataset)
TestReturn ==
    /\ pure.fn = "test"
    /\ pure.at = "eval_ret"
    /\ pure' = [pure EXCEPT !.ret = MeanOf(pure.error, Len(pure.errs)), !.at = "returned"]
    /\ UNCHANGED scriptState

NextTest == TestAssign \/ TestBatch \/ TestResume \/ TestReturn

SpecTest == InitTest /\ [][NextTest]_vars


\* ------------------------------------------ the virtual epoch on its own
\* Lines 201-221 without the training itself: the loop over the epochs and the
\* batches of a training set of n examples with batch size b, and the value
\* given to scheduler.step.
InitLoop ==
    /\ Parked
    /\ \E n \in 1..MaxExamples, b \in 1..MaxBatch :
          pure = [fn |-> "loop", at |-> "loop", n |-> n, b |-> b, epoch |-> 0, step |-> 0,
                  curr_epoch |-> None, prev |-> None]

\* Lines 201-203: for epoch in range(0, MaxLoopEpochs): step = 0
LoopEpoch ==
    /\ pure.fn = "loop"
    /\ pure.at = "loop"
    /\ pure' = IF pure.epoch < MaxLoopEpochs
               THEN [pure EXCEPT !.step = 0, !.at = "fetch"]
               ELSE [pure EXCEPT !.at = "done"]
    /\ UNCHANGED scriptState

\* Line 206: for data in train_loader; after the last batch, the next epoch.
LoopFetch ==
    /\ pure.fn = "loop"
    /\ pure.at = "fetch"
    /\ pure' = IF pure.step < NumBatches(pure.n, pure.b)
               THEN [pure EXCEPT !.at = "sched_step"]
               ELSE [pure EXCEPT !.epoch = @ + 1, !.at = "loop"]
    /\ UNCHANGED scriptState

\* Lines 218-219: curr_epoch = ...; scheduler.step(curr_epoch)
LoopSchedStep ==
    /\ pure.fn = "loop"
    /\ pure.at = "sched_step"
    /\ pure' = [pure EXCEPT !.prev = pure.curr_epoch,
                            !.curr_epoch = VirtualEpoch(pure.epoch, pure.step, pure.n, pure.b),
                            !.at = "step_inc"]
    /\ UNCHANGED scriptState

\* Line 221: step += 1
LoopStepInc ==
    /\ pure.fn = "loop"
    /\ pure.at = "step_inc"
    /\ pure' = [pure EXCEPT !.step = @ + 1, !.at = "fetch"]
    /\ UNCHANGED scriptState

NextLoop == LoopEpoch \/ LoopFetch \/ LoopSchedStep \/ LoopStepInc

SpecLoop == InitLoop /\ [][NextLoop]_vars


\* ================================================================ claims
\* The number of batches of one training epoch.
TrainBatches == NumBatches(TrainSize, batch_size)

\* The operations of one batch, as the program performs them.
ProgramOrder == <<"zero_grad", "forward", "loss", "backward", "clip",
                  "opt_step", "sched_step", "ema_update">>

\* The places of operation op in the log.
Places(op) == {i \in 1..Len(log) : log[i] = op}

\* The place of an operation that is in the log once.
Place(op) == CHOOSE i \in Places(op) : TRUE

\* The process is resumed from a checkpoint and has loaded it.
Resumed == ckpt_arg # {} /\ pc # "start"

\* The record the process was resumed from.
ResumedFrom == CHOOSE r \in ckpt_arg : TRUE

\* C1: on every epoch flagged best the best-epoch file is overwritten with that
\* epoch's record, whatever the epoch's number: once the epoch's save decision
\* is past (the process is at the epoch's report line), a flagged epoch's record
\* is the content of the best-epoch file.
C1_BestFileWrittenOnEveryBestEpoch ==
    (pc = "print" /\ is_best) => best_file = {checkpoint}

\* C2: the validation loss in the best-epoch file is <= every validation loss
\* observed, in this run or in one before it, at an epoch index lower than or
\* equal to the epoch at which the file was written (the record's epoch field is
\* that index plus one).
C2_BestFileLossIsLeastObserved ==
    \A r \in best_file : seen[r.epoch] # None => r.valid_loss_min <= seen[r.epoch]

\* C3: the test evaluation is called at an epoch index > 0 only if the epoch's
\* validation loss is <= all validation losses before it: those of the earlier
\* epochs of this run and, in the first epoch of a resumed run, those observed
\* at the epoch indexes below the resumed next_epoch.
C3_TestOnlyOnNewMinimum ==
    (pc = "assign" /\ loader = "test" /\ epoch > 0) =>
        /\ best_val_loss # None => val_loss <= best_val_loss
        /\ (epoch = start_epoch /\ epoch \in SavePoints /\ seen[epoch] # None)
               => val_loss <= seen[epoch]

\* C4: the record built in an epoch carries as valid_loss_min the least
\* validation loss of the run so far (this epoch's included), flagged best or not.
C4_RecordCarriesRunMinimum ==
    pc = "best_check" =>
        checkpoint.valid_loss_min =
            (IF best_val_loss = None THEN val_loss ELSE Min(val_loss, best_val_loss))

\* C5: in every training batch the operations zero_grad, forward, loss, backward,
\* clip, optimizer step, scheduler step, shadow update are performed once each in
\* that order, with no evaluation, checkpoint or save operation among them.
C5_BatchOperationsInOrder ==
    /\ pc = "batch" => log = SubSeq(ProgramOrder, 1, ip - 1)
    /\ pc = "step_inc" => log = ProgramOrder

\* C5 witness: the second batch of a later epoch has been completed.
C5_Witness ==
    pc = "step_inc" /\ epoch = 1 /\ step = 1 /\ log = ProgramOrder

\* C6 as stated: in a batch the optimizer step comes first, the shadow update
\* second, the scheduler step third.
C6_OptThenEmaThenSched ==
    pc = "step_inc" =>
        /\ Place("opt_step") < Place("ema_update")
        /\ Place("ema_update") < Place("sched_step")

\* C6 amended: in a batch the optimizer step, the scheduler step and the shadow
\* update are performed once each, the optimizer step first, the scheduler step
\* second, the shadow update third, all before the next batch is fetched; at the
\* end of a batch the scheduler has been stepped as often as the optimizer.
C6_OptThenSchedThenEma ==
    pc \in {"step_inc", "fetch"} /\ log # <<>> /\ (pc = "fetch" => step > 0) =>
        /\ \A op \in {"opt_step", "sched_step", "ema_update"} : Cardinality(Places(op)) = 1
        /\ Place("opt_step") < Place("sched_step")
        /\ Place("sched_step") < Place("ema_update")
        /\ sched.n = opt

\* C6 witness: a batch has ended with the three operations done.
C6_Witness ==
    /\ pc = "step_inc" /\ step = 0 /\ epoch = 2
    /\ Places("opt_step") # {} /\ Places("sched_step") # {} /\ Places("ema_update") # {}

\* The epoch's record has been built and the epoch is not over.
RecordBuilt ==
    \/ pc \in {"best_check", "cadence", "print"}
    \/ pc \in {"assign", "eval", "eval_ret"} /\ loader = "test"

\* C7: the shadow values are in the model only between an assign and its resume
\* inside test(): there is at most one unmatched assign, and only there; resume
\* is never performed without one; outside, the model holds the parameters the
\* optimizer trained, so every training step works on them, and every
\* checkpoint record, built or saved, holds them.
C7_ShadowOnlyInsideEvaluate ==
    /\ unmatched \in {0, 1}
    /\ unmatched = 1 <=> pc = "eval"
    /\ pc = "eval" => w = shadow /\ original = trained
    /\ pc # "eval" => w = trained
    /\ RecordBuilt => checkpoint.state_dict = trained
    /\ (pc = "print" /\ SaveDue) => checkpoint \in periodic

\* C7 witness: the test evaluation of an epoch runs on shadow values that differ
\* from the trained ones, after the epoch's record has been built.
C7_Witness ==
    /\ pc = "eval" /\ loader = "test" /\ eb = 1
    /\ shadow # trained /\ checkpoint.state_dict = trained

\* C8: no batch of an evaluation is processed with the model in training mode.
C8_EvaluationInEvalMode ==
    pc = "eval" => ~training

\* C9: the record's epoch field is the next epoch to run and a resumed run
\* starts there.  The optimizer's step count travels in the record, so it
\* counts the batches trained along the chain of runs: every record names as
\* next epoch the number of epochs trained, a resumed run starts at the epoch
\* its record names, and at the head of every epoch of index e exactly e epochs
\* have been trained (none twice, none skipped) up to epochs - 1.
C9_ResumeContinuesAtNextEpoch ==
    /\ \A r \in periodic \cup best_file : r.optimizer = r.epoch * TrainBatches
    /\ Resumed => start_epoch = ResumedFrom.epoch
    /\ pc \in {"loop", "fetch", "batch", "step_inc", "epoch_end", "report", "done"}
           => epoch >= start_epoch
    /\ pc = "loop" => opt = epoch * TrainBatches
    /\ pc = "fetch" => opt = epoch * TrainBatches + step
    /\ pc = "done" => epoch = epochs

\* C9 witness: a run resumed from the record saved after epoch 5 has trained
\* the epochs 5..9 and finished.
C9_Witness ==
    /\ run = 2 /\ pc = "done" /\ start_epoch = SaveEvery /\ epochs = 2 * SaveEvery
    /\ epoch = epochs /\ opt = epochs * TrainBatches

\* C10: a run resumed from a periodic checkpoint has the best-validation
\* tracker the uninterrupted run had at that epoch.  For the first resumption,
\* seen[start_epoch] is that tracker: the least validation loss of the epochs
\* below the resumed next_epoch, which only the run that wrote the record has
\* trained.
C10_ResumedTrackerAsUninterrupted ==
    (run = 2 /\ Resumed /\ pc = "fetch" /\ epoch = start_epoch /\ step = 0
        /\ start_epoch \in SavePoints)
        => best_val_loss = seen[start_epoch]

\* C11: The run statistics (best epoch, best validation loss, test MAE) change
\* only in an epoch whose validation MAE is a new minimum of this run, ties
\* included: outside the best check, the best epoch is the latest executed epoch
\* whose validation MAE equals the least one measured by this run, the best
\* validation loss is that least one, and the test MAE is the one measured at
\* that epoch; so it is when the loop has finished after at least one epoch.
C11_StatsAreOfLatestMinimumEpoch ==
    pc \in {"cadence", "print", "loop", "fetch", "batch", "step_inc", "epoch_end",
            "report", "done"}
        => /\ best_val_loss = observed.min
           /\ best_epoch = observed.at
           /\ observed.tested = best_epoch
           /\ (best_epoch = None) = (test_loss = None)

\* The loop has finished after three epochs or more, the best one tied with an
\* earlier one and followed by a worse one.
C11_Witness ==
    /\ pc = "done"
    /\ best_epoch > start_epoch
    /\ best_epoch < epoch - 1
    /\ val_loss > best_val_loss
    /\ best_val_loss = 500

\* C12: The periodic checkpoint file is written after exactly those completed
\* epochs whose 1-indexed number is a multiple of 5, once, whether or not the
\* epoch was a best one; it holds the record of that epoch.
C12_PeriodicSaveEveryFifthEpoch ==
    /\ pc = "print" =>
          IF (epoch + 1) % 5 = 0
          THEN Cardinality(Places("save")) = 1 /\ checkpoint \in periodic
          ELSE Places("save") = {}
    /\ \A r \in periodic : r.epoch % 5 = 0 /\ r.epoch >= 5

\* Epoch 10 was not a best one and its record is in the periodic file.
C12_Witness ==
    /\ pc = "print"
    /\ epoch + 1 = 10
    /\ ~is_best
    /\ checkpoint \in periodic
    /\ Places("save") # {}

\* C13: The virtual-epoch values passed to successive scheduler step calls never
\* decrease, across batches and across epochs, and the first value a resumed
\* run passes is not lower than the last one passed before the checkpoint it
\* resumed from was built.
C13_VirtualEpochNeverDecreases ==
    AtOp("sched_step") =>
        /\ CurrEpoch >= sched.last
        /\ sched.n > 0 /\ step = 0 /\ epoch > start_epoch => CurrEpoch > sched.last
        /\ Resumed /\ epoch = start_epoch /\ step = 0
              => sched = ResumedFrom.scheduler /\ CurrEpoch >= ResumedFrom.scheduler.last

\* The first scheduler step of a run resumed from a checkpoint of a trained model.
C13_Witness ==
    /\ AtOp("sched_step")
    /\ Resumed
    /\ epoch = start_epoch
    /\ step = 0
    /\ ResumedFrom.scheduler.last > 0
    /\ CurrEpoch > ResumedFrom.scheduler.last

\* C14: For every batch the virtual epoch given to the scheduler equals
\* epoch + step / (the number of batches the training loader yields in one
\* epoch), whether or not the batch size divides the training-set size.
\* CurrEpoch is a numerator over TrainSize, so the equality is cross-multiplied.
C14_VirtualEpochCountsBatches ==
    AtOp("sched_step") =>
        CurrEpoch * TrainBatches = (epoch * TrainBatches + step) * TrainSize

\* C15: With the one-cycle policy the scheduler is not wrapped in the warmup
\* composer, and every step call of the training loop advances its position by
\* exactly one step, whatever the virtual epoch is: after n calls the position
\* is n steps.  (sched.last is a numerator over TrainSize.)
C15_OneCycleAdvancesOneStepPerCall ==
    scheduler = "OneCycleLR" =>
        /\ ~sched.warmup
        /\ sched.last = sched.n * TrainSize

\* C16: A call of test() leaves the optimizer state, the scheduler state, the
\* shadow, the best tracker and the mode as the call found them, at every point
\* of the call; and when it returns, the model's parameters are those the call
\* found too.
C16_EvaluateChangesNothing ==
    pc \in {"assign", "eval", "eval_ret"} =>
        /\ opt = before.opt
        /\ sched = before.sched
        /\ shadow = before.shadow
        /\ <<best_epoch, best_val_loss>> = before.best
        /\ pc = "eval_ret" => w = before.w

\* test() returns after a batch, the shadow differs from the parameters and
\* the tracker is set.
C16_Witness ==
    /\ pc = "eval_ret"
    /\ error > 0
    /\ shadow # w
    /\ opt > 0
    /\ best_val_loss # None

\* C17: test(loader) returns the sum of the absolute errors of all examples of
\* the data set divided by the number of examples, whatever the batch size
\* (the errors 0.5 and 1.5 give 1.0).
C17_EvaluateReturnsMeanAbsoluteError ==
    pure.fn = "test" /\ pure.ret # None =>
        /\ pure.ret = SumFrom(pure.errs, 1, Len(pure.errs)) \div Len(pure.errs)
        /\ pure.errs = <<500, 1500>> => pure.ret = 1000

\* The errors 0.5, 1.5 and 1.5 in batches of two, the last batch short: 1.166.
C17_Witness ==
    /\ pure.fn = "test"
    /\ pure.errs = <<500, 1500, 1500>>
    /\ pure.b = 2
    /\ pure.at = "returned"
    /\ pure.ret = 1166

\* The epochs range(start_epoch, args.epochs) holds.
EpochsToRun == IF epochs > start_epoch THEN epochs - start_epoch ELSE 0

\* C18: The loop terminates after the configured number of epochs: started at
\* epoch s (0, or the resumed next epoch) with --epochs E, a process that is
\* not stopped executes exactly max(0, E - s) epochs, each one through
\* TrainEpoch, Validate, MaybeTest and MaybeCheckpoint once and in that order,
\* and then leaves the loop.
C18_LoopRunsConfiguredEpochs ==
    /\ [](pc \in {"report", "done", "crashed"} => progress.executed = EpochsToRun)
    /\ [](pc = "print" =>
             progress.phases = <<"TrainEpoch", "Validate", "MaybeTest", "MaybeCheckpoint">>)
    /\ [](pc \in {"loop", "fetch", "print"} => progress.executed = epoch - start_epoch)
    /\ (pc = "start" ~> pc = "report")

\* A resumed process has left the loop after the five epochs that remained.
C18_Witness ==
    /\ pc = "report"
    /\ Resumed
    /\ start_epoch = 5
    /\ epochs = 10
    /\ progress.executed = 5

\* C19: For every training-set size N >= 1 and batch size B >= 1, every virtual
\* epoch computed during epoch e lies in [e, e + 1); so with the warmup length
\* of 1 the values below the warmup length are exactly those of the batches of
\* epoch 0, and the first value at or past the warmup length is that of the
\* first batch of epoch 1 and equals the warmup length.  (The values are
\* numerators over N.)
C19_VirtualEpochWithinItsEpoch ==
    pure.fn = "loop" /\ pure.at = "step_inc" =>
        /\ pure.epoch * pure.n <= pure.curr_epoch
        /\ pure.curr_epoch < (pure.epoch + 1) * pure.n
        /\ (pure.curr_epoch < WarmupEpochs * pure.n) = (pure.epoch = 0)
        /\ /\ pure.curr_epoch >= WarmupEpochs * pure.n
           /\ pure.prev = None \/ pure.prev < WarmupEpochs * pure.n
           => /\ pure.epoch = 1
              /\ pure.step = 0
              /\ pure.curr_epoch = WarmupEpochs * pure.n
              /\ pure.prev # None

\* The first batch of epoch 1 of a training set of 3 examples in batches of 2:
\* the value before it was 2/3, this one is 1.
C19_Witness ==
    /\ pure.fn = "loop"
    /\ pure.at = "step_inc"
    /\ pure.n = 3
    /\ pure.b = 2
    /\ pure.epoch = 1
    /\ pure.step = 0
    /\ pure.prev = 2
    /\ pure.curr_epoch = 3

\* C20: Every process that reaches the final report emits a best epoch index
\* and a test MAE that an epoch executed by this process has set, also when the
\* loop body ran zero times (resumed with the next epoch >= --epochs).
C20_ReportEmitsThisRunsBest ==
    pc \in {"done", "crashed"} =>
        /\ pc = "done"
        /\ best_epoch # None
        /\ test_loss # None
        /\ best_epoch >= start_epoch
        /\ best_epoch < epochs
        /\ observed.tested = best_epoch

====
